---- MODULE Spec2Model ----
(***************************************************************************)
(* GOMD: a server that compiles the .gmd documents under ./web into HTML   *)
(* under ./.built, serves them over HTTP and counts page views.            *)
(*                                                                         *)
(* Strings are TLA+ strings; bytes are read with SubSeq.  Paths are        *)
(* strings with "/" as the separator.                                      *)
(***************************************************************************)
EXTENDS Integers, Sequences, FiniteSets, TLC

VARIABLES
    arg,          \* the input of the pure function under check
    ret,          \* the results of its successive applications
    web,          \* the source tree ./web: relative path -> [kind, data]
    built,        \* the build root ./.built: [exists, tree: relative path -> [kind, data]]
    built0,       \* the build root as the process found it
    pc,           \* where main is
    err,          \* the error compileGMDs returned ("" for nil)
    sig,          \* where the signal goroutine is
    listening,    \* the HTTP listener is open
    analytics,    \* the Analytics counters
    lastView,     \* key -> time of the last counted view
    countryCache, \* address -> country code
    now,          \* the clock, in seconds
    lookups,      \* address -> the requests the geolocation service got, its replies
    budget,       \* the number of requests the run still accepts
    procs,        \* the request handlers: where each is, its request and its locals
    done          \* the requests answered last: request, response, counters before and after

pureVars == <<arg, ret>>
treeVars == <<web, built, built0>>
mainVars == <<pc, err, sig, listening>>
viewVars == <<analytics, lastView>>
serveVars == <<analytics, lastView, countryCache, lookups, budget, procs, done>>
vars == <<arg, ret, web, built, built0, pc, err, sig, listening, analytics, lastView,
          countryCache, now, lookups, budget, procs, done>>

(***************************************************************************)
(* Bounds                                                                  *)
(***************************************************************************)
MaxToks == 4      \* an input document is at most this many tokens
MaxWords == 3     \* a user-agent string is at most this many words
MaxPasses == 2    \* applications of the preprocessor to its own output
MaxEntries == 3   \* a source tree holds at most this many entries
BootReqs == 1     \* requests accepted in a run over any source tree
MaxReqs == 2      \* requests accepted in a run over the fixed source tree
MaxTime == 11     \* the clock stops here
ConcReqs == 2     \* requests accepted by the two handlers together
MaxRuns == 2      \* runs of the compiler over one source tree
RaceReqs == 2     \* requests of one client accepted by the two handlers together
LiveReqs == 2     \* requests accepted by the server scheduled fairly
PathReqs == 2     \* requests accepted by the server given any path
AnchorReqs == 3   \* views of one client, one after the other

(***************************************************************************)
(* Strings                                                                 *)
(***************************************************************************)
Ch(s, i) == SubSeq(s, i, i)

\* strings.Contains
Contains(s, sub) ==
    \E i \in 1..(Len(s) - Len(sub) + 1) : SubSeq(s, i, i + Len(sub) - 1) = sub

\* strings.HasSuffix
HasSuffix(s, suf) ==
    /\ Len(s) >= Len(suf)
    /\ SubSeq(s, Len(s) - Len(suf) + 1, Len(s)) = suf

\* strings.HasPrefix
HasPrefix(s, pre) ==
    /\ Len(s) >= Len(pre)
    /\ SubSeq(s, 1, Len(pre)) = pre

\* strings.TrimSuffix
TrimSuffix(s, suf) ==
    IF HasSuffix(s, suf) THEN SubSeq(s, 1, Len(s) - Len(suf)) ELSE s

UpperLetters == "ABCDEFGHIJKLMNOPQRSTUVWXYZ"
LowerLetters == "abcdefghijklmnopqrstuvwxyz"

LowerCh(c) ==
    IF \E i \in 1..Len(UpperLetters) : Ch(UpperLetters, i) = c
    THEN Ch(LowerLetters, CHOOSE i \in 1..Len(UpperLetters) : Ch(UpperLetters, i) = c)
    ELSE c

RECURSIVE ToLower(_)
\* strings.ToLower
ToLower(s) ==
    IF s = "" THEN "" ELSE LowerCh(Ch(s, 1)) \o ToLower(SubSeq(s, 2, Len(s)))

RECURSIVE Concats(_, _)
\* the strings made of at most n tokens of toks
Concats(toks, n) ==
    IF n = 0 THEN {""}
    ELSE LET shorter == Concats(toks, n - 1)
         IN  shorter \cup {s \o t : s \in shorter, t \in toks}

(***************************************************************************)
(* preprocessGMD: the regexp \(([^)\s]+)\)\[([^\]]+)\]                     *)
(***************************************************************************)
\* \s of the regexp syntax
IsSpace(c) == c \in {" ", "\t", "\n", "\f", "\r"}

RECURSIVE ScanTarget(_, _)
\* [^)\s]+ is greedy: the first index from i on that holds ")" or white space,
\* Len(s) + 1 when there is none
ScanTarget(s, i) ==
    IF i > Len(s) \/ Ch(s, i) = ")" \/ IsSpace(Ch(s, i)) THEN i
    ELSE ScanTarget(s, i + 1)

RECURSIVE ScanLabel(_, _)
\* [^\]]+ is greedy: the first index from i on that holds "]"
ScanLabel(s, i) ==
    IF i > Len(s) \/ Ch(s, i) = "]" THEN i ELSE ScanLabel(s, i + 1)

NoMatch == [start |-> 0, close |-> 0, end |-> 0]

\* the label group and the closing "]": k is where the scan of the label stopped
MatchLabel(s, i, j, k) ==
    IF k = j + 2 \/ k > Len(s) THEN NoMatch
    ELSE [start |-> i, close |-> j, end |-> k]

\* the target group, ")" and "[": j is where the scan of the target stopped
MatchTarget(s, i, j) ==
    IF j = i + 1 \/ j > Len(s) \/ Ch(s, j) # ")" THEN NoMatch
    ELSE IF j + 1 > Len(s) \/ Ch(s, j + 1) # "[" THEN NoMatch
    ELSE MatchLabel(s, i, j, ScanLabel(s, j + 2))

\* The match of the regexp that starts at index i, NoMatch when there is none.
\* Both classes exclude the byte that must follow them, so a match at i has
\* one shape only: close is the index of ")", end the index of the last "]".
MatchAt(s, i) ==
    IF i > Len(s) \/ Ch(s, i) # "(" THEN NoMatch
    ELSE MatchTarget(s, i, ScanTarget(s, i + 1))

RECURSIVE FindFrom(_, _)
\* m, the match at index i, or else the leftmost match after i
MatchOrNext(s, i, m) == IF m # NoMatch THEN m ELSE FindFrom(s, i + 1)

\* the leftmost match that starts at index i or later
FindFrom(s, i) ==
    IF i > Len(s) THEN NoMatch ELSE MatchOrNext(s, i, MatchAt(s, i))

\* the groups of the match m of b
Submatches(b, m) ==
    IF m = NoMatch THEN << >>
    ELSE << SubSeq(b, m.start, m.end),
            SubSeq(b, m.start + 1, m.close - 1),
            SubSeq(b, m.close + 2, m.end - 1) >>

\* re.FindSubmatch: <<whole match, group 1, group 2>>, << >> for nil
FindSubmatch(b) == Submatches(b, FindFrom(b, 1))

\* lines 72-75: the standard link built from the groups
Link(match, submatches) ==
    IF Len(submatches) = 3
    THEN "[" \o submatches[3] \o "](/" \o submatches[2] \o ")"
    ELSE match

\* a link that loses its leading slash
LinkNoSlash(match, submatches) ==
    IF Len(submatches) = 3
    THEN "[" \o submatches[3] \o "](" \o submatches[2] \o ")"
    ELSE match

\* a replacement that loses the leading slash of the link
ReplaceNoSlash(match) == LinkNoSlash(match, FindSubmatch(match))

\* the function handed to ReplaceAllFunc
Replace(match) == Link(match, FindSubmatch(match))

RECURSIVE ReplaceAllFrom(_, _)
\* the text from index i on, m being the leftmost match from i on
ReplaceMatch(s, i, m) ==
    IF m = NoMatch THEN SubSeq(s, i, Len(s))
    ELSE SubSeq(s, i, m.start - 1)
         \o Replace(SubSeq(s, m.start, m.end))
         \o ReplaceAllFrom(s, m.end + 1)

\* re.ReplaceAllFunc from index i on: leftmost matches, none overlapping
ReplaceAllFrom(s, i) ==
    IF i > Len(s) THEN "" ELSE ReplaceMatch(s, i, FindFrom(s, i))

preprocessGMD(input) == ReplaceAllFrom(input, 1)

(***************************************************************************)
(* detectBrowserEngine                                                     *)
(***************************************************************************)
\* the first two cases in the wrong order
detectWebKitFirst(ua) ==
    LET l == ToLower(ua)
    IN  CASE Contains(l, "webkit") -> "WebKit"
          [] Contains(l, "webkit") /\ Contains(l, "chrome") -> "Blink"
          [] Contains(l, "gecko") /\ Contains(l, "firefox") -> "Gecko"
          [] Contains(l, "trident") \/ Contains(l, "msie") -> "Trident"
          [] OTHER -> "Other"

detectBrowserEngine(ua) ==
    LET l == ToLower(ua)
    IN  IF Contains(l, "webkit") /\ Contains(l, "chrome") THEN "Blink"
        ELSE IF Contains(l, "webkit") THEN "WebKit"
        ELSE IF Contains(l, "gecko") /\ Contains(l, "firefox") THEN "Gecko"
        ELSE IF Contains(l, "trident") \/ Contains(l, "msie") THEN "Trident"
        ELSE "Other"

(***************************************************************************)
(* Paths and trees.  A tree maps the paths relative to its root to         *)
(* [kind, data]; the root itself is the empty path.                        *)
(***************************************************************************)
LastIndex(s, c) ==
    LET I == {i \in 1..Len(s) : Ch(s, i) = c}
    IN  IF I = {} THEN 0 ELSE CHOOSE i \in I : \A j \in I : j <= i

\* filepath.Dir of a relative path ("" for the root)
Dir(p) == IF LastIndex(p, "/") = 0 THEN "" ELSE SubSeq(p, 1, LastIndex(p, "/") - 1)

\* d.Name(): the last element of the path
Base(p) == SubSeq(p, LastIndex(p, "/") + 1, Len(p))

\* the directories a path lies in, itself included
Ancestors(d) ==
    IF d = "" THEN {}
    ELSE {SubSeq(d, 1, i - 1) : i \in {j \in 1..Len(d) : Ch(d, j) = "/"}} \cup {d}

File(data) == [kind |-> "file", data |-> data]
Directory == [kind |-> "dir", data |-> ""]

IsFile(t, p) == p \in DOMAIN t /\ t[p].kind = "file"
IsDir(t, p) == p \in DOMAIN t /\ t[p].kind = "dir"

\* m with key k set to v (a Go map assignment, a file written into a tree)
Put(m, k, v) == [x \in DOMAIN m \cup {k} |-> IF x = k THEN v ELSE m[x]]

EmptyTree == << >>

\* bytes in increasing order, "/" first: paths compared byte by byte in this
\* order come out in the order of a walk that sorts each directory by name
ByteOrder == "/-.0123456789ABCDEFGHIJKLMNOPQRSTUVWXYZ_abcdefghijklmnopqrstuvwxyz"
ByteRank(c) == CHOOSE i \in 1..Len(ByteOrder) : Ch(ByteOrder, i) = c

RECURSIVE PathLess(_, _)
PathLess(a, b) ==
    IF b = "" THEN FALSE
    ELSE IF a = "" THEN TRUE
    ELSE IF Ch(a, 1) # Ch(b, 1) THEN ByteRank(Ch(a, 1)) < ByteRank(Ch(b, 1))
    ELSE PathLess(SubSeq(a, 2, Len(a)), SubSeq(b, 2, Len(b)))

RECURSIVE WalkOrder(_)
\* filepath.WalkDir's order of the entries below the root
WalkOrder(paths) ==
    IF paths = {} THEN << >>
    ELSE LET first == CHOOSE p \in paths : \A q \in paths \ {p} : PathLess(p, q)
         IN  <<first>> \o WalkOrder(paths \ {first})

(***************************************************************************)
(* compileGMDs                                                             *)
(***************************************************************************)
\* blackfriday.Run, the external renderer: a fixed function of its input
Render(input) == "<p>" \o input \o "</p>"

NoFault == [op |-> "none", path |-> ""]

\* the filesystem operations of a compile that can fail, with their paths
Faults(w) ==
    {NoFault, [op |-> "mkbuild", path |-> ""], [op |-> "readdir", path |-> ""]}
    \cup {[op |-> "readdir", path |-> p] : p \in {q \in DOMAIN w : w[q].kind = "dir"}}
    \cup {[op |-> o, path |-> p] :
            o \in {"read", "mkdir", "write"},
            p \in {q \in DOMAIN w : w[q].kind = "file" /\ HasSuffix(Base(q), ".gmd")}}

\* the tree with the directories of made added
WithDirs(t, made) ==
    [x \in DOMAIN t \cup made |-> IF x \in DOMAIN t THEN t[x] ELSE Directory]

\* MkdirAll, given the elements of the path that exist as files
MkdirAllUpTo(t, anc, blocked) ==
    [err |-> IF blocked = {} THEN "" ELSE "mkdir: not a directory",
     tree |-> WithDirs(t, {a \in anc : \A b \in blocked : Len(a) < Len(b)})]

\* os.MkdirAll below the build root: every missing directory on the way is
\* made, up to the first element that exists as a file
MkdirAll(t, d) ==
    MkdirAllUpTo(t, Ancestors(d), {a \in Ancestors(d) : IsFile(t, a)})

\* a write that appends to the artifact already there
WriteFileAppend(t, p, data) ==
    IF IsDir(t, p) THEN [err |-> "open: is a directory", tree |-> t]
    ELSE IF IsFile(t, p) THEN [err |-> "", tree |-> Put(t, p, File(t[p].data \o data))]
    ELSE [err |-> "", tree |-> Put(t, p, File(data))]

\* ioutil.WriteFile below the build root
WriteFile(t, p, data) ==
    IF IsDir(t, p) THEN [err |-> "open: is a directory", tree |-> t]
    ELSE [err |-> "", tree |-> Put(t, p, File(data))]

\* an output path that keeps the name of the source document
OutPathKeepName(rel) == rel

\* the output path of a document, relative to the build root
OutPath(rel) == TrimSuffix(rel, ".gmd") \o ".html"

\* lines 103-110: the directories are made, mk the outcome, and the artifact written
WriteArtifact(p, fault, html, outPath, mk) ==
    IF mk.err # "" THEN mk
    ELSE IF fault = [op |-> "write", path |-> p] THEN [err |-> "write", tree |-> mk.tree]
    ELSE WriteFile(mk.tree, outPath, html)

\* lines 92-110: one document is read, rendered and written
CompileDocument(w, p, t, fault, outPath) ==
    IF fault = [op |-> "read", path |-> p] THEN [err |-> "read", tree |-> t]
    ELSE IF fault = [op |-> "mkdir", path |-> p] THEN [err |-> "mkdir", tree |-> t]
    ELSE WriteArtifact(p, fault, Render(preprocessGMD(w[p].data)), outPath,
                       MkdirAll(t, Dir(outPath)))

\* the callback of the walk on one entry: the error it returns and the build tree
WalkFn(w, p, t, fault) ==
    IF w[p].kind = "dir"
    THEN [err |-> IF fault = [op |-> "readdir", path |-> p] THEN "readdir" ELSE "",
          tree |-> t]
    ELSE IF ~HasSuffix(Base(p), ".gmd") THEN [err |-> "", tree |-> t]
    ELSE CompileDocument(w, p, t, fault, OutPath(p))

RECURSIVE Walk(_, _, _, _, _)
\* the walk goes on after the i-th entry, whose callback returned r
WalkOn(w, order, i, r, fault) ==
    IF r.err # "" THEN r ELSE Walk(w, order, i + 1, r.tree, fault)

\* the walk from the i-th entry on; it stops at the first error
Walk(w, order, i, t, fault) ==
    IF i > Len(order) THEN [err |-> "", tree |-> t]
    ELSE WalkOn(w, order, i, WalkFn(w, order[i], t, fault), fault)

Absent == [exists |-> FALSE, tree |-> EmptyTree]

\* what compileGMDs returns when the walk returned r
Compiled(r) == [err |-> r.err, built |-> [exists |-> TRUE, tree |-> r.tree]]

compileGMDs(w, b, fault) ==
    IF fault.op = "mkbuild" THEN [err |-> "mkdir .built", built |-> b]
    ELSE IF fault = [op |-> "readdir", path |-> ""]
    THEN Compiled([err |-> "readdir", tree |-> IF b.exists THEN b.tree ELSE EmptyTree])
    ELSE Compiled(Walk(w, WalkOrder(DOMAIN w), 1,
                       IF b.exists THEN b.tree ELSE EmptyTree, fault))

\* cleanup: os.RemoveAll(buildDir)
cleanup == Absent

(***************************************************************************)
(* main, up to the listener, and the signal goroutine                      *)
(***************************************************************************)
\* checks that forget the reserved directories
StartupChecksIndexOnly(w) ==
    IF "index.gmd" \notin DOMAIN w THEN "fatal" ELSE "compile"

\* the three checks of the source tree: the state main goes to
StartupChecks(w) ==
    IF "index.gmd" \notin DOMAIN w THEN "fatal"
    ELSE IF IsDir(w, "assets") THEN "fatal"
    ELSE IF IsDir(w, "analytics") THEN "fatal"
    ELSE "compile"

Checks ==
    /\ pc = "start"
    /\ pc' = StartupChecks(web)
    /\ UNCHANGED <<pureVars, treeVars, err, sig, listening, serveVars, now>>

Compile ==
    /\ pc = "compile"
    /\ \E fault \in Faults(web) :
          \E r \in {compileGMDs(web, built, fault)} :
              /\ built' = r.built
              /\ err' = r.err
              /\ pc' = IF r.err = "" THEN "listen" ELSE "fatal"
              /\ sig' = IF r.err = "" THEN "armed" ELSE sig
    /\ UNCHANGED <<pureVars, web, built0, listening, serveVars, now>>

\* http.ListenAndServe opens the listener
Listen ==
    /\ pc = "listen"
    /\ pc' = "serving"
    /\ listening' = TRUE
    /\ UNCHANGED <<pureVars, treeVars, err, sig, serveVars, now>>

\* http.ListenAndServe returns an error, at once or while serving: log.Fatal
ListenFail ==
    /\ pc \in {"listen", "serving"}
    /\ pc' = "fatal"
    /\ listening' = FALSE
    /\ UNCHANGED <<pureVars, treeVars, err, sig, serveVars, now>>

\* an interrupt or termination signal arrives: the goroutine runs cleanup
SignalCleanup ==
    /\ pc \in {"listen", "serving"}
    /\ sig = "armed"
    /\ built' = cleanup
    /\ sig' = "cleaned"
    /\ UNCHANGED <<pureVars, web, built0, pc, err, listening, serveVars, now>>

\* the goroutine calls os.Exit(0)
SignalExit ==
    /\ pc \in {"listen", "serving"}
    /\ sig = "cleaned"
    /\ pc' = "exited"
    /\ listening' = FALSE
    /\ UNCHANGED <<pureVars, treeVars, err, sig, serveVars, now>>

(***************************************************************************)
(* Request paths                                                           *)
(***************************************************************************)
srcDir == "./web"
buildDir == "./.built"

RECURSIVE Split(_)
\* the elements of a path between its slashes
Split(s) ==
    LET I == {i \in 1..Len(s) : Ch(s, i) = "/"}
    IN  IF I = {} THEN <<s>>
        ELSE LET i == CHOOSE k \in I : \A j \in I : k <= j
             IN  <<SubSeq(s, 1, i - 1)>> \o Split(SubSeq(s, i + 1, Len(s)))

RECURSIVE JoinSegs(_)
JoinSegs(segs) ==
    IF segs = << >> THEN ""
    ELSE IF Len(segs) = 1 THEN segs[1]
    ELSE segs[1] \o "/" \o JoinSegs(Tail(segs))

RECURSIVE CleanSegs(_, _, _, _)
\* the elements Clean keeps: "" and "." dropped, ".." taking back the element
\* before it (dropped at the root of a rooted path, kept at the start of a
\* relative one)
CleanSegs(segs, i, stack, rooted) ==
    IF i > Len(segs) THEN stack
    ELSE LET e == segs[i]
         IN  IF e = "" \/ e = "." THEN CleanSegs(segs, i + 1, stack, rooted)
             ELSE IF e = ".."
             THEN IF stack # << >> /\ stack[Len(stack)] # ".."
                  THEN CleanSegs(segs, i + 1, SubSeq(stack, 1, Len(stack) - 1), rooted)
                  ELSE IF rooted THEN CleanSegs(segs, i + 1, stack, rooted)
                  ELSE CleanSegs(segs, i + 1, Append(stack, e), rooted)
             ELSE CleanSegs(segs, i + 1, Append(stack, e), rooted)

\* path.Clean and filepath.Clean
Clean(p) ==
    IF p = "" THEN "."
    ELSE LET rooted == Ch(p, 1) = "/"
             kept == JoinSegs(CleanSegs(Split(p), 1, << >>, rooted))
         IN  IF rooted THEN "/" \o kept ELSE IF kept = "" THEN "." ELSE kept

\* filepath.Join of two non-empty elements
Join(a, b) == Clean(a \o "/" \o b)

\* net/http's cleanPath: the canonical form of a request path
CleanURLPath(p) ==
    LET q == IF p = "" THEN "/" ELSE IF Ch(p, 1) # "/" THEN "/" \o p ELSE p
        np == Clean(q)
    IN  IF HasSuffix(q, "/") /\ np # "/" THEN np \o "/" ELSE np

\* a ServeMux that hands every canonical path to the "/" handler
RouteAllDoc(path) ==
    IF CleanURLPath(path) # path THEN "redirect" ELSE "doc"

\* the handler the ServeMux picks for a request path, among the patterns
\* "/assets/", "/favicon.ico", "/analytics" and "/"
Route(path) ==
    IF CleanURLPath(path) # path THEN "redirect"
    ELSE IF path = "/favicon.ico" THEN "favicon"
    ELSE IF path = "/analytics" THEN "analytics"
    ELSE IF HasPrefix(path, "/assets/") THEN "assets"
    ELSE IF path = "/assets" THEN "redirect"
    ELSE "doc"

\* the same choice for a path taken as it came
RouteAsIs(path) ==
    IF path = "/favicon.ico" THEN "favicon"
    ELSE IF path = "/analytics" THEN "analytics"
    ELSE IF HasPrefix(path, "/assets/") THEN "assets"
    ELSE IF path = "/assets" THEN "redirect"
    ELSE "doc"

\* ServeMux.Handler: the path of a CONNECT request is not brought to its
\* canonical form, the path of any other request is
Dispatch(req) ==
    IF req.method = "CONNECT" THEN RouteAsIs(req.path) ELSE Route(req.path)

\* lines 326-330: the file the "/" handler looks for
HtmlPath(urlPath) ==
    LET path == IF urlPath = "/" THEN "/index" ELSE urlPath
    IN  Join(buildDir, path) \o ".html"

\* the page a view is counted under
PageOf(urlPath) == IF urlPath = "/" THEN "/index" ELSE urlPath

\* files of the working directory outside the build root
OutsideFiles == {"config.json", "main.go", "secret.html"}

InBuild(name) == HasPrefix(name, ".built/")
BuildRel(name) == SubSeq(name, Len(".built/") + 1, Len(name))

\* os.Stat(name) succeeds
Exists(b, name) ==
    IF InBuild(name) THEN b.exists /\ BuildRel(name) \in DOMAIN b.tree
    ELSE name \in OutsideFiles

\* net/http's containsDotDot: an element of the path is ".."
ContainsDotDot(v) ==
    \/ v = ".."
    \/ HasPrefix(v, "../")
    \/ HasSuffix(v, "/..")
    \/ Contains(v, "/../")

\* http.ServeFile: the response for the file name
ServeFile(b, urlPath, name) ==
    IF ContainsDotDot(urlPath) THEN [status |-> 400, body |-> "invalid URL path"]
    ELSE IF HasSuffix(urlPath, "/index.html") THEN [status |-> 301, body |-> ""]
    ELSE IF ~Exists(b, name) THEN [status |-> 404, body |-> ""]
    ELSE IF ~InBuild(name) THEN [status |-> 200, body |-> name]
    ELSE IF IsFile(b.tree, BuildRel(name))
         THEN [status |-> 200, body |-> b.tree[BuildRel(name)].data]
    ELSE IF IsFile(b.tree, BuildRel(name) \o "/index.html")
         THEN [status |-> 200, body |-> b.tree[BuildRel(name) \o "/index.html"].data]
    ELSE [status |-> 200, body |-> "directory listing"]

\* net.SplitHostPort, the host part ("" on error)
SplitHost(remote) ==
    LET i == LastIndex(remote, ":")
        host == SubSeq(remote, 1, i - 1)
    IN  IF i = 0 THEN ""
        ELSE IF HasPrefix(host, "[")
             THEN IF HasSuffix(host, "]") THEN SubSeq(host, 2, Len(host) - 1) ELSE ""
        ELSE IF Contains(host, ":") THEN ""
        ELSE host

(***************************************************************************)
(* The request handlers                                                    *)
(***************************************************************************)
viewCooldown == 10

\* a Go map read: the zero value for a missing key
Get(m, k) == IF k \in DOMAIN m THEN m[k] ELSE 0

NoReq == [method |-> "", remote |-> "", path |-> "", ua |-> ""]
NoSnap == [analytics |-> << >>, lastView |-> << >>]
IdleProc == [pc |-> "idle", req |-> NoReq, name |-> "", t |-> 0, tmp |-> 0,
             country |-> "", pre |-> NoSnap]

Snap == [analytics |-> analytics, lastView |-> lastView]

Alive == pc = "serving"

\* the handler p answers its request and returns
Finish(p, req, t, pre, resp) ==
    LET rec == [req |-> req, t |-> t, status |-> resp.status, body |-> resp.body,
                before |-> pre, after |-> [analytics |-> analytics', lastView |-> lastView']]
    IN  /\ done' = <<rec>>
        /\ procs' = [procs EXCEPT ![p] = IdleProc]

CanAccept(p) ==
    /\ Alive
    /\ listening
    /\ procs[p].pc = "idle"
    /\ budget > 0

\* the ServeMux redirects a path that is not canonical, and "/assets"
Redirect(p, req) ==
    /\ CanAccept(p)
    /\ Dispatch(req) = "redirect"
    /\ budget' = budget - 1
    /\ UNCHANGED <<analytics, lastView>>
    /\ Finish(p, req, 0, Snap, [status |-> 301, body |-> ""])
    /\ UNCHANGED <<pureVars, treeVars, mainVars, countryCache, lookups, now>>

\* lines 156-157: the file server of ./assets; found says whether the file is there
ServeAssets(p, req, found) ==
    /\ CanAccept(p)
    /\ Dispatch(req) = "assets"
    /\ budget' = budget - 1
    /\ UNCHANGED <<analytics, lastView>>
    /\ Finish(p, req, 0, Snap,
              IF found THEN [status |-> 200, body |-> "asset"]
              ELSE [status |-> 404, body |-> ""])
    /\ UNCHANGED <<pureVars, treeVars, mainVars, countryCache, lookups, now>>

\* lines 159-166: ./favicon.ico if present
ServeFavicon(p, req, found) ==
    /\ CanAccept(p)
    /\ Dispatch(req) = "favicon"
    /\ budget' = budget - 1
    /\ UNCHANGED <<analytics, lastView>>
    /\ Finish(p, req, 0, Snap,
              IF found THEN [status |-> 200, body |-> "favicon"]
              ELSE [status |-> 404, body |-> ""])
    /\ UNCHANGED <<pureVars, treeVars, mainVars, countryCache, lookups, now>>

\* lines 168-323: the dashboard, rendered from the counters
ServeAnalytics(p, req) ==
    /\ CanAccept(p)
    /\ Dispatch(req) = "analytics"
    /\ budget' = budget - 1
    /\ UNCHANGED <<analytics, lastView>>
    /\ Finish(p, req, 0, Snap, [status |-> 200, body |-> "dashboard"])
    /\ UNCHANGED <<pureVars, treeVars, mainVars, countryCache, lookups, now>>

\* lines 326-331 and 350: the "/" handler looks for the artifact
DocStat(p, req) ==
    /\ CanAccept(p)
    /\ Dispatch(req) = "doc"
    /\ budget' = budget - 1
    /\ UNCHANGED <<analytics, lastView>>
    /\ IF Exists(built, HtmlPath(req.path))
       THEN /\ procs' = [procs EXCEPT ![p] =
                            [IdleProc EXCEPT !.pc = "check", !.req = req,
                                             !.name = HtmlPath(req.path), !.pre = Snap]]
            /\ UNCHANGED done
       ELSE Finish(p, req, 0, Snap, [status |-> 404, body |-> ""])
    /\ UNCHANGED <<pureVars, treeVars, mainVars, countryCache, lookups, now>>

ViewKey(req) == SplitHost(req.remote) \o "|" \o PageOf(req.path)

\* a check that also counts a view exactly one cooldown after the last
CountedAtCooldown(lv, key, t) == key \notin DOMAIN lv \/ t - lv[key] >= viewCooldown

\* line 336: the view is counted when the key has no timestamp or the
\* timestamp is more than the cooldown old
Counted(lv, key, t) == key \notin DOMAIN lv \/ t - lv[key] > viewCooldown

\* a handler that writes the timestamp of a suppressed view too
AfterCheckTouch(counted) == IF counted THEN "loadTotal" ELSE "storeLast"

\* lines 336-347: a counted view goes through the body of the if, a
\* suppressed one straight to http.ServeFile
AfterCheck(counted) == IF counted THEN "loadTotal" ELSE "serve"

\* lines 333-336: the time is read and the last view of the key looked up
DocCheck(p) ==
    /\ Alive
    /\ procs[p].pc = "check"
    /\ procs' = [procs EXCEPT ![p].t = now,
                              ![p].pc = AfterCheck(Counted(lastView, ViewKey(procs[p].req),
                                                           now))]
    /\ UNCHANGED <<pureVars, treeVars, mainVars, analytics, lastView, countryCache,
                   lookups, budget, done, now>>

\* line 337, analytics.TotalViews++: the load
LoadTotal(p) ==
    /\ Alive
    /\ procs[p].pc = "loadTotal"
    /\ procs' = [procs EXCEPT ![p].tmp = analytics.TotalViews, ![p].pc = "storeTotal"]
    /\ UNCHANGED <<pureVars, treeVars, mainVars, analytics, lastView, countryCache,
                   lookups, budget, done, now>>

\* line 337, analytics.TotalViews++: the store
StoreTotal(p) ==
    /\ Alive
    /\ procs[p].pc = "storeTotal"
    /\ analytics' = [analytics EXCEPT !.TotalViews = procs[p].tmp + 1]
    /\ procs' = [procs EXCEPT ![p].tmp = 0, ![p].pc = "loadPage"]
    /\ UNCHANGED <<pureVars, treeVars, mainVars, lastView, countryCache,
                   lookups, budget, done, now>>

\* line 338, analytics.PageViews[path]++: the map read
LoadPage(p) ==
    /\ Alive
    /\ procs[p].pc = "loadPage"
    /\ procs' = [procs EXCEPT ![p].tmp = Get(analytics.PageViews, PageOf(procs[p].req.path)),
                              ![p].pc = "storePage"]
    /\ UNCHANGED <<pureVars, treeVars, mainVars, analytics, lastView, countryCache,
                   lookups, budget, done, now>>

\* line 338, analytics.PageViews[path]++: the map write
StorePage(p) ==
    /\ Alive
    /\ procs[p].pc = "storePage"
    /\ analytics' = [analytics EXCEPT !.PageViews =
                        Put(@, PageOf(procs[p].req.path), procs[p].tmp + 1)]
    /\ procs' = [procs EXCEPT ![p].tmp = 0, ![p].pc = "loadEngine"]
    /\ UNCHANGED <<pureVars, treeVars, mainVars, lastView, countryCache,
                   lookups, budget, done, now>>

\* lines 340-341, analytics.BrowserEngines[engine]++: the map read
LoadEngine(p) ==
    /\ Alive
    /\ procs[p].pc = "loadEngine"
    /\ procs' = [procs EXCEPT ![p].tmp = Get(analytics.BrowserEngines,
                                              detectBrowserEngine(procs[p].req.ua)),
                              ![p].pc = "storeEngine"]
    /\ UNCHANGED <<pureVars, treeVars, mainVars, analytics, lastView, countryCache,
                   lookups, budget, done, now>>

\* lines 340-341, analytics.BrowserEngines[engine]++: the map write
StoreEngine(p) ==
    /\ Alive
    /\ procs[p].pc = "storeEngine"
    /\ analytics' = [analytics EXCEPT !.BrowserEngines =
                        Put(@, detectBrowserEngine(procs[p].req.ua), procs[p].tmp + 1)]
    /\ procs' = [procs EXCEPT ![p].tmp = 0, ![p].pc = "lookup"]
    /\ UNCHANGED <<pureVars, treeVars, mainVars, lastView, countryCache,
                   lookups, budget, done, now>>

\* the geolocation service has seen nothing from an address
NoLookups == [sent |-> 0, got |-> << >>]

LookupsOf(ip) == IF ip \in DOMAIN lookups THEN lookups[ip] ELSE NoLookups

\* lines 433-444, lookupCountry: the empty address, the cache, or the request
\* to the geolocation service
LookupCache(p) ==
    /\ Alive
    /\ procs[p].pc = "lookup"
    /\ \E ip \in {SplitHost(procs[p].req.remote)} :
          IF ip = ""
          THEN /\ procs' = [procs EXCEPT ![p].country = "Unknown", ![p].pc = "loadCountry"]
               /\ UNCHANGED lookups
          ELSE IF ip \in DOMAIN countryCache
          THEN /\ procs' = [procs EXCEPT
                               ![p].country = IF countryCache[ip] = "" THEN "Unknown"
                                              ELSE countryCache[ip],
                               ![p].pc = "loadCountry"]
               /\ UNCHANGED lookups
          ELSE /\ procs' = [procs EXCEPT ![p].pc = "await"]
               /\ lookups' = Put(lookups, ip, [LookupsOf(ip) EXCEPT !.sent = @ + 1])
    /\ UNCHANGED <<pureVars, treeVars, mainVars, analytics, lastView, countryCache,
                   budget, done, now>>

\* what the geolocation service can answer: a transport error, a body that
\* does not parse, a body with no country code, a country code
Replies ==
    {[err |-> TRUE, valid |-> FALSE, code |-> ""],
     [err |-> FALSE, valid |-> FALSE, code |-> ""],
     [err |-> FALSE, valid |-> TRUE, code |-> ""],
     [err |-> FALSE, valid |-> TRUE, code |-> "US"],
     [err |-> FALSE, valid |-> TRUE, code |-> "DE"]}

\* lines 445-459: the country lookupCountry returns for a reply
CountryOf(reply) ==
    IF reply.err THEN "Unknown"
    ELSE IF ~reply.valid \/ reply.code = "" THEN "Unknown"
    ELSE reply.code

\* a cache that keeps only the country codes, not the failures
CacheOnlyCodes(cache, ip, reply) ==
    IF CountryOf(reply) = "Unknown" THEN cache ELSE Put(cache, ip, CountryOf(reply))

\* lines 446, 455, 458: the cache after the reply for ip
CacheReply(cache, ip, reply) == Put(cache, ip, CountryOf(reply))

\* lines 444-459, lookupCountry: the reply arrives and is cached
LookupReply(p, reply) ==
    /\ Alive
    /\ procs[p].pc = "await"
    /\ \E ip \in {SplitHost(procs[p].req.remote)} :
          /\ countryCache' = CacheReply(countryCache, ip, reply)
          /\ lookups' = Put(lookups, ip, [LookupsOf(ip) EXCEPT !.got = Append(@, reply)])
    /\ procs' = [procs EXCEPT ![p].country = CountryOf(reply), ![p].pc = "loadCountry"]
    /\ UNCHANGED <<pureVars, treeVars, mainVars, analytics, lastView,
                   budget, done, now>>

\* line 344, analytics.Countries[country]++: the map read
LoadCountry(p) ==
    /\ Alive
    /\ procs[p].pc = "loadCountry"
    /\ procs' = [procs EXCEPT ![p].tmp = Get(analytics.Countries, procs[p].country),
                              ![p].pc = "storeCountry"]
    /\ UNCHANGED <<pureVars, treeVars, mainVars, analytics, lastView, countryCache,
                   lookups, budget, done, now>>

\* line 344, analytics.Countries[country]++: the map write
StoreCountry(p) ==
    /\ Alive
    /\ procs[p].pc = "storeCountry"
    /\ analytics' = [analytics EXCEPT !.Countries =
                        Put(@, procs[p].country, procs[p].tmp + 1)]
    /\ procs' = [procs EXCEPT ![p].tmp = 0, ![p].pc = "storeLast"]
    /\ UNCHANGED <<pureVars, treeVars, mainVars, lastView, countryCache,
                   lookups, budget, done, now>>

\* line 345: lastView[key] = now
StoreLast(p) ==
    /\ Alive
    /\ procs[p].pc = "storeLast"
    /\ lastView' = Put(lastView, ViewKey(procs[p].req), procs[p].t)
    /\ procs' = [procs EXCEPT ![p].pc = "serve"]
    /\ UNCHANGED <<pureVars, treeVars, mainVars, analytics, countryCache,
                   lookups, budget, done, now>>

\* lines 347-348: http.ServeFile sends the artifact
DocServe(p) ==
    /\ Alive
    /\ procs[p].pc = "serve"
    /\ UNCHANGED <<analytics, lastView>>
    /\ Finish(p, procs[p].req, procs[p].t, procs[p].pre,
              ServeFile(built, procs[p].req.path, procs[p].name))
    /\ UNCHANGED <<pureVars, treeVars, mainVars, countryCache, lookups, budget, now>>

\* the steps of the "/" handler that read and that write each shared map
MapReads == [PageViews |-> "loadPage", BrowserEngines |-> "loadEngine",
             Countries |-> "loadCountry", lastView |-> "check", countryCache |-> "lookup"]
MapWrites == [PageViews |-> "storePage", BrowserEngines |-> "storeEngine",
              Countries |-> "storeCountry", lastView |-> "storeLast", countryCache |-> "await"]

\* lines 336-345, 437-458: two handlers are at the same map, one of them
\* writing; the Go runtime may stop the process ("concurrent map writes",
\* "concurrent map read and map write") and nothing is cleaned up
MapFault(p, q) ==
    /\ Alive
    /\ p # q
    /\ \E m \in DOMAIN MapWrites :
          /\ procs[p].pc = MapWrites[m]
          /\ procs[q].pc \in {MapReads[m], MapWrites[m]}
    /\ pc' = "fatal"
    /\ listening' = FALSE
    /\ UNCHANGED <<pureVars, treeVars, err, sig, serveVars, now>>

\* time passes
Tick(d) ==
    /\ now + d <= MaxTime
    /\ now' = now + d
    /\ UNCHANGED <<pureVars, treeVars, mainVars, serveVars>>

(***************************************************************************)
(* Initial states                                                          *)
(***************************************************************************)
NoAnalytics == [TotalViews |-> 0, PageViews |-> << >>, BrowserEngines |-> << >>,
                Countries |-> << >>]

\* the process at the start of main over the source tree w and build root b,
\* its request handlers named by ids, n requests to come
ServerInit(w, b, ids, n) ==
    /\ web = w
    /\ built = b
    /\ built0 = b
    /\ pc = "start"
    /\ err = ""
    /\ sig = "idle"
    /\ listening = FALSE
    /\ analytics = NoAnalytics
    /\ lastView = << >>
    /\ countryCache = << >>
    /\ now = 0
    /\ lookups = << >>
    /\ budget = n
    /\ procs = [p \in ids |-> IdleProc]
    /\ done = << >>

\* no server: only a pure function is exercised
ServerOff == ServerInit(EmptyTree, Absent, {}, 0)

(***************************************************************************)
(* Start-up over any source tree, then a few requests                      *)
(***************************************************************************)
SourceEntries ==
    {[path |-> "index.gmd", entry |-> File("(a)[b] (a)[b][c]")],
     [path |-> "index.gmd", entry |-> Directory],
     [path |-> "page.gmd", entry |-> File("c")],
     [path |-> "notes.txt", entry |-> File("c")],
     [path |-> "analytics.gmd", entry |-> File("c")],
     [path |-> "assets.gmd", entry |-> File("c")],
     [path |-> "favicon.ico.gmd", entry |-> File("c")],
     [path |-> "assets", entry |-> Directory],
     [path |-> "analytics", entry |-> Directory],
     [path |-> "sub", entry |-> Directory],
     [path |-> "sub/b.gmd", entry |-> File("(x)[y]")]}

\* the entries make a tree: one entry a path, every entry in a directory of the tree
IsTree(S) ==
    /\ \A e1, e2 \in S : e1.path = e2.path => e1 = e2
    /\ \A e \in S : Dir(e.path) = ""
                    \/ \E d \in S : d.path = Dir(e.path) /\ d.entry.kind = "dir"

TreeOf(S) == [p \in {e.path : e \in S} |-> (CHOOSE e \in S : e.path = p).entry]

SourceTrees ==
    {TreeOf(S) : S \in {T \in SUBSET SourceEntries : Cardinality(T) <= MaxEntries /\ IsTree(T)}}

\* the build root a run finds: none, or what an earlier run left behind
StaleBuild == [exists |-> TRUE, tree |-> ("old.html" :> File("<p>old</p>"))]
EmptyBuild == [exists |-> TRUE, tree |-> EmptyTree]
InitialBuilds == {Absent, EmptyBuild, StaleBuild}

Handlers == {"h1"}

InitBoot ==
    /\ arg = ""
    /\ ret = << >>
    /\ \E w \in SourceTrees, b \in InitialBuilds : ServerInit(w, b, Handlers, BootReqs)

\* the documents of the source tree: its files named *.gmd
Documents(w) == {p \in DOMAIN w : w[p].kind = "file" /\ HasSuffix(Base(p), ".gmd")}

\* the URL of a document: /filename
UrlOf(doc) == "/" \o TrimSuffix(doc, ".gmd")

BootRequests ==
    {[method |-> "GET", remote |-> "10.0.0.1:4000", path |-> u, ua |-> ""] :
        u \in {UrlOf(d) : d \in Documents(web)} \cup {"/", "/missing", "/assets/x"}}

BootReplies == {[err |-> TRUE, valid |-> FALSE, code |-> ""]}

HandlerStep(p) ==
    \/ DocCheck(p)
    \/ LoadTotal(p)
    \/ StoreTotal(p)
    \/ LoadPage(p)
    \/ StorePage(p)
    \/ LoadEngine(p)
    \/ StoreEngine(p)
    \/ LookupCache(p)
    \/ LoadCountry(p)
    \/ StoreCountry(p)
    \/ StoreLast(p)
    \/ DocServe(p)

NextBoot ==
    \/ Checks
    \/ Compile
    \/ Listen
    \/ ListenFail
    \/ SignalCleanup
    \/ SignalExit
    \/ \E p \in DOMAIN procs, req \in BootRequests :
          \/ Redirect(p, req)
          \/ \E found \in BOOLEAN : ServeAssets(p, req, found)
          \/ \E found \in BOOLEAN : ServeFavicon(p, req, found)
          \/ ServeAnalytics(p, req)
          \/ DocStat(p, req)
    \/ \E p \in DOMAIN procs : HandlerStep(p)
    \/ \E p \in DOMAIN procs, reply \in BootReplies : LookupReply(p, reply)

SpecBoot == InitBoot /\ [][NextBoot]_vars

(***************************************************************************)
(* The compiler run again and again over one source tree                   *)
(***************************************************************************)
InitCompile ==
    /\ arg = ""
    /\ ret = << >>
    /\ \E w \in SourceTrees, b \in InitialBuilds : ServerInit(w, b, {}, 0)

\* the failures of a run that leave the walk undone: the build root cannot be
\* made, the source root cannot be read
RunFaults(w) == {fault \in Faults(w) : fault.path = ""}

\* compileGMDs is called on the build root as the last run left it; ret keeps
\* what each run returned
CompileRun ==
    /\ Len(ret) < MaxRuns
    /\ \E fault \in RunFaults(web) :
          \E r \in {compileGMDs(web, built, fault)} :
              /\ built' = r.built
              /\ ret' = Append(ret, r)
    /\ UNCHANGED <<arg, web, built0, mainVars, serveVars, now>>

NextCompile == CompileRun

SpecCompile == InitCompile /\ [][NextCompile]_vars

(***************************************************************************)
(* One handler at a time over a fixed source tree, the clock running       *)
(***************************************************************************)
SiteTree ==
    ("index.gmd" :> File("(page)[next]"))
    @@ ("page.gmd" :> File("c"))
    @@ ("analytics.gmd" :> File("c"))

Remotes == {"10.0.0.1:4000", "10.0.0.2:5000"}

\* views of the index from two addresses, and from one of them a view of
\* another page and a request of every other kind
SiteRequests ==
    [method : {"GET"}, remote : Remotes, path : {"/"}, ua : {"AppleWebKit Chrome"}]
    \cup [method : {"GET"}, remote : {"10.0.0.1:4000"},
          path : {"/page", "/missing", "/assets/x", "/favicon.ico", "/analytics"},
          ua : {"Gecko Firefox"}]

\* the answers of the geolocation service, one country enough for one handler
SiteReplies == {reply \in Replies : reply.code # "DE"}

TickSteps == {5, 6}

\* no handler is at work
Quiet == \A p \in DOMAIN procs : procs[p].pc = "idle"

InitServe ==
    /\ arg = ""
    /\ ret = << >>
    /\ ServerInit(SiteTree, Absent, Handlers, MaxReqs)

\* the clock is read once a request (line 335): the time that passes while a
\* handler works is time before the next request
NextServe ==
    \/ Checks
    \/ Compile
    \/ Listen
    \/ \E p \in DOMAIN procs, req \in SiteRequests :
          \/ \E found \in BOOLEAN : ServeAssets(p, req, found)
          \/ \E found \in BOOLEAN : ServeFavicon(p, req, found)
          \/ ServeAnalytics(p, req)
          \/ DocStat(p, req)
    \/ \E p \in DOMAIN procs : HandlerStep(p)
    \/ \E p \in DOMAIN procs, reply \in SiteReplies : LookupReply(p, reply)
    \/ Alive /\ Quiet /\ \E d \in TickSteps : Tick(d)

SpecServe == InitServe /\ [][NextServe]_vars

(***************************************************************************)
(* The same server with its goroutines scheduled fairly                    *)
(***************************************************************************)
\* views of the index from two addresses, by a client that names no user agent
LiveRequests == [method : {"GET"}, remote : Remotes, path : {"/"}, ua : {""}]

InitLive ==
    /\ arg = ""
    /\ ret = << >>
    /\ ServerInit(SiteTree, Absent, Handlers, LiveReqs)

NextLive ==
    \/ Checks
    \/ Compile
    \/ Listen
    \/ \E p \in DOMAIN procs, req \in LiveRequests : DocStat(p, req)
    \/ \E p \in DOMAIN procs : HandlerStep(p)
    \/ \E p \in DOMAIN procs, reply \in SiteReplies : LookupReply(p, reply)

\* a goroutine that can take a step takes it.  The reply to http.Get (line
\* 444: the default client, no timeout) is the geolocation service's to give,
\* and nothing makes it come
SpecLive ==
    /\ InitLive
    /\ [][NextLive]_vars
    /\ \A p \in Handlers : WF_vars(HandlerStep(p))

(***************************************************************************)
(* Two connections served at once, each by its own handler                 *)
(***************************************************************************)
Connections == {"h1", "h2"}

\* the client at the other end of each connection
Client ==
    ("h1" :> [remote |-> "10.0.0.1:4000", ua |-> "AppleWebKit Chrome"])
    @@ ("h2" :> [remote |-> "10.0.0.2:5000", ua |-> "Gecko Firefox"])

ConcPaths == {"/", "/page"}

RequestOn(p, path) ==
    [method |-> "GET", remote |-> Client[p].remote, path |-> path, ua |-> Client[p].ua]

InitConc ==
    /\ arg = ""
    /\ ret = << >>
    /\ ServerInit(SiteTree, Absent, Connections, ConcReqs)

NextConc ==
    \/ Checks
    \/ Compile
    \/ Listen
    \/ \E p \in DOMAIN procs, path \in ConcPaths : DocStat(p, RequestOn(p, path))
    \/ \E p \in DOMAIN procs : HandlerStep(p)
    \/ \E p \in DOMAIN procs, reply \in Replies : LookupReply(p, reply)
    \/ \E p, q \in DOMAIN procs : MapFault(p, q)

SpecConc == InitConc /\ [][NextConc]_vars

(***************************************************************************)
(* One client on two connections at once                                   *)
(***************************************************************************)
\* the requests of a browser that reloads and follows a link: one address
\* (the port of a connection is no part of the identity), two pages
RaceRequests ==
    [method : {"GET"}, remote : {"10.0.0.1:4000"}, path : ConcPaths,
     ua : {"AppleWebKit Chrome"}]

InitRace ==
    /\ arg = ""
    /\ ret = << >>
    /\ ServerInit(SiteTree, Absent, Connections, RaceReqs)

NextRace ==
    \/ Checks
    \/ Compile
    \/ Listen
    \/ \E p \in DOMAIN procs, req \in RaceRequests : DocStat(p, req)
    \/ \E p \in DOMAIN procs : HandlerStep(p)
    \/ \E p \in DOMAIN procs, reply \in Replies : LookupReply(p, reply)
    \/ \E p, q \in DOMAIN procs : MapFault(p, q)

SpecRace == InitRace /\ [][NextRace]_vars

(***************************************************************************)
(* Requests of any method and path                                         *)
(***************************************************************************)
Methods == {"GET", "CONNECT"}
AnyPaths == {"/", "/page", "/../secret", "/page/../../main.go", "/x/../page", "/.."}
PathRequests == [method : Methods, remote : {"10.0.0.1:4000"}, path : AnyPaths, ua : {""}]

InitPath ==
    /\ arg = ""
    /\ ret = << >>
    /\ ServerInit(SiteTree, Absent, Handlers, PathReqs)

NextPath ==
    \/ Checks
    \/ Compile
    \/ Listen
    \/ \E p \in DOMAIN procs, req \in PathRequests :
          \/ Redirect(p, req)
          \/ DocStat(p, req)
    \/ \E p \in DOMAIN procs : HandlerStep(p)
    \/ \E p \in DOMAIN procs, reply \in BootReplies : LookupReply(p, reply)

SpecPath == InitPath /\ [][NextPath]_vars

(***************************************************************************)
(* One client viewing two pages again and again, the clock running         *)
(***************************************************************************)
AnchorRequests ==
    [method : {"GET"}, remote : {"10.0.0.1:4000"}, path : ConcPaths, ua : {""}]

InitAnchor ==
    /\ arg = ""
    /\ ret = << >>
    /\ ServerInit(SiteTree, Absent, Handlers, AnchorReqs)

NextAnchor ==
    \/ Checks
    \/ Compile
    \/ Listen
    \/ \E p \in DOMAIN procs, req \in AnchorRequests : DocStat(p, req)
    \/ \E p \in DOMAIN procs : HandlerStep(p)
    \/ \E p \in DOMAIN procs, reply \in BootReplies : LookupReply(p, reply)
    \/ Alive /\ Quiet /\ \E d \in TickSteps : Tick(d)

SpecAnchor == InitAnchor /\ [][NextAnchor]_vars

(***************************************************************************)
(* The preprocessor applied to a document, then to its own output          *)
(***************************************************************************)
GmdTokens == {"(a)", "[b]", "(", ")", "[", "]", "c", " "}
GmdInputs == Concats(GmdTokens, MaxToks)

InitGMD ==
    /\ arg \in GmdInputs
    /\ ret = << >>
    /\ ServerOff

Preprocess ==
    /\ Len(ret) < MaxPasses
    /\ ret' = Append(ret, preprocessGMD(IF ret = << >> THEN arg ELSE ret[Len(ret)]))
    /\ UNCHANGED <<arg, treeVars, mainVars, serveVars, now>>

NextGMD == Preprocess

SpecGMD == InitGMD /\ [][NextGMD]_vars

(***************************************************************************)
(* The classifier applied to a user-agent string                           *)
(***************************************************************************)
UAWords == {"WebKit", "Chrome", "CHROME", "Gecko", "Firefox", "Trident",
            "MSIE", "web", "kit", "/1 "}
UAInputs == Concats(UAWords, MaxWords)

InitUA ==
    /\ arg \in UAInputs
    /\ ret = << >>
    /\ ServerOff

Classify ==
    /\ ret = << >>
    /\ ret' = << detectBrowserEngine(arg) >>
    /\ UNCHANGED <<arg, treeVars, mainVars, serveVars, now>>

NextUA == Classify

SpecUA == InitUA /\ [][NextUA]_vars

(***************************************************************************)
(* Properties of start-up and routing (SpecBoot)                           *)
(***************************************************************************)
\* the source tree fails a start-up check
FailsChecks(w) ==
    \/ "index.gmd" \notin DOMAIN w
    \/ \E p \in DOMAIN w : p \in {"assets", "analytics"} /\ w[p].kind = "dir"

\* C5: the listener is open only after the checks and the compile have passed;
\* with index.gmd missing, a directory named assets or analytics in the source
\* root, or a failed filesystem operation of the compile, the process aborts
\* and the listener is never open
C5_StartupGuard ==
    /\ listening => ~FailsChecks(web) /\ err = "" /\ sig # "idle"
    /\ FailsChecks(web) => ~listening /\ pc \in {"start", "fatal"}
    /\ err # "" => ~listening /\ pc = "fatal"

\* a source tree that passes the checks, a compile that failed, the process aborted
C5_Witness ==
    /\ ~FailsChecks(web)
    /\ err # ""
    /\ pc = "fatal"

\* the artifact of the document at p.gmd: p.html
MirrorOf(doc) == SubSeq(doc, 1, Len(doc) - Len(".gmd")) \o ".html"

ArtifactsOf(b) == {a \in DOMAIN b.tree : b.tree[a].kind = "file"}

\* the compile has succeeded and cleanup has not run
JustCompiled == pc \in {"listen", "serving"} /\ sig = "armed"

\* C9: after a successful compile into an empty build root, every document
\* p.gmd of the source tree, at any depth, has its artifact p.html, and the
\* build root holds no other artifact
C9_PathMirroring ==
    (JustCompiled /\ built0.tree = EmptyTree)
        => /\ built.exists
           /\ ArtifactsOf(built) = {MirrorOf(d) : d \in Documents(web)}

\* a document in a subdirectory and one in the root compiled into an empty build root
C9_Witness ==
    /\ JustCompiled
    /\ built0 = Absent
    /\ IsFile(web, "sub/b.gmd")
    /\ IsFile(built.tree, "sub/b.html")
    /\ IsFile(built.tree, "index.html")

\* C10: while the server is serving, GET /p for a source document p.gmd is
\* answered with the compiled artifact p.html
C10_DocumentReachable ==
    \A i \in 1..Len(done) :
        \A d \in Documents(web) :
            (sig = "armed" /\ done[i].req.path = UrlOf(d))
                => /\ done[i].status = 200
                   /\ done[i].body = Render(preprocessGMD(web[d].data))

\* C13: after every successful compile, whatever the build root held before,
\* the artifacts of the build root are exactly the p.html of the documents
\* p.gmd of the source tree
C13_ExactMirror ==
    JustCompiled => ArtifactsOf(built) = {MirrorOf(d) : d \in Documents(web)}

\* the process has ended after a successful compile
EndedAfterCompile == pc \in {"fatal", "exited"} /\ sig # "idle"

\* C14: when the process has ended after a successful compile, by an error
\* of the listener or by a signal, the build root is gone
C14_BuildRemovedAtExit == EndedAfterCompile => ~built.exists

\* the server accepts requests and cleanup has not run
Accepting == pc = "serving" /\ listening /\ sig = "armed"

\* C20: while the server accepts requests, index.html is an artifact of the
\* build root and GET / is not answered not-found
C20_RootServable ==
    Accepting =>
        /\ IsFile(built.tree, "index.html")
        /\ \A i \in DOMAIN done : done[i].req.path = "/" => done[i].status # 404

(***************************************************************************)
(* Properties of the preprocessor (SpecGMD)                                *)
(***************************************************************************)
\* (i, j, k) is an occurrence of (target)[label] in s: "(" at i, ")" at j,
\* the last "]" at k, a non-empty target with no white space or ")" between i
\* and j, "[" right after j, a non-empty label with no "]" up to k
IsOccurrence(s, i, j, k) ==
    /\ 1 <= i /\ i + 1 < j /\ j + 2 < k /\ k <= Len(s)
    /\ Ch(s, i) = "(" /\ Ch(s, j) = ")" /\ Ch(s, j + 1) = "[" /\ Ch(s, k) = "]"
    /\ \A p \in (i + 1)..(j - 1) : Ch(s, p) # ")" /\ ~IsSpace(Ch(s, p))
    /\ \A p \in (j + 2)..(k - 1) : Ch(s, p) # "]"

Occurrences(s) ==
    {o \in [start : 1..Len(s), close : 1..Len(s), end : 1..Len(s)] :
        IsOccurrence(s, o.start, o.close, o.end)}

\* the standard link an occurrence stands for
LinkOf(s, o) ==
    "[" \o SubSeq(s, o.close + 2, o.end - 1) \o "](/"
        \o SubSeq(s, o.start + 1, o.close - 1) \o ")"

Overlap(o1, o2) == o1.start <= o2.end /\ o2.start <= o1.end

RECURSIVE LeftmostFrom(_, _)
\* the occurrences met scanning left to right from index i, each one starting
\* after the end of the one before
LeftmostFrom(s, i) ==
    LET cands == {o \in Occurrences(s) : o.start >= i}
    IN  IF cands = {} THEN {}
        ELSE LET o == CHOOSE c \in cands : \A d \in cands : c.start <= d.start
             IN  {o} \cup LeftmostFrom(s, o.end + 1)

\* out is s with exactly the occurrences of sel replaced by their links (each
\* link is one byte longer than its occurrence) and every other byte kept
ReplacedExactly(s, sel, out) ==
    /\ Len(out) = Len(s) + Cardinality(sel)
    /\ \A o \in sel :
          LET sh == Cardinality({q \in sel : q.start < o.start})
          IN  SubSeq(out, o.start + sh, o.end + sh + 1) = LinkOf(s, o)
    /\ \A p \in 1..Len(s) :
          (\A o \in sel : p < o.start \/ p > o.end)
              => Ch(out, p + Cardinality({q \in sel : q.end < p})) = Ch(s, p)

\* C6: preprocessGMD is idempotent: applied to its own output it returns that
\* output unchanged
C6_Idempotent == Len(ret) >= 2 => ret[2] = ret[1]

\* C7 as stated: every occurrence of (target)[label] in the input is replaced
\* by [label](/target), and an input with no occurrence is returned unchanged
C7_EveryOccurrenceReplaced ==
    Len(ret) >= 1 => ReplacedExactly(arg, Occurrences(arg), ret[1])

\* C7 as amended: the occurrences found scanning left to right, each starting
\* after the end of the previous one, are replaced by [label](/target); an
\* occurrence that overlaps an earlier one and every other byte is kept, so an
\* input with no occurrence is returned unchanged
C7_LeftmostReplaced ==
    Len(ret) >= 1 => ReplacedExactly(arg, LeftmostFrom(arg, 1), ret[1])

\* a document with two overlapping occurrences has been preprocessed, and a
\* link was written
C7_Witness ==
    /\ Len(ret) >= 1
    /\ ret[1] # arg
    /\ \E o1, o2 \in Occurrences(arg) : o1 # o2 /\ Overlap(o1, o2)

(***************************************************************************)
(* Properties of the classifier (SpecUA)                                   *)
(***************************************************************************)
\* s holds the token tok, letter case ignored
HasToken(s, tok) ==
    \E i \in 1..(Len(s) - Len(tok) + 1) :
        ToLower(SubSeq(s, i, i + Len(tok) - 1)) = tok

EngineLabels == {"Blink", "WebKit", "Gecko", "Trident", "Other"}

\* the label the priority order gives
ExpectedEngine(s) ==
    IF HasToken(s, "webkit")
    THEN IF HasToken(s, "chrome") THEN "Blink" ELSE "WebKit"
    ELSE IF HasToken(s, "gecko") /\ HasToken(s, "firefox") THEN "Gecko"
    ELSE IF HasToken(s, "trident") \/ HasToken(s, "msie") THEN "Trident"
    ELSE "Other"

\* C8: detectBrowserEngine is total and returns the label of the priority
\* order Blink > WebKit > Gecko > Trident > Other, letter case ignored
C8_ClassifierPrecedence ==
    ret # << >> => ret[1] \in EngineLabels /\ ret[1] = ExpectedEngine(arg)

\* an upper-case Chrome token beside WebKit and Gecko tokens classified Blink
C8_Witness ==
    /\ ret = << "Blink" >>
    /\ Contains(arg, "CHROME") /\ Contains(arg, "WebKit") /\ Contains(arg, "Gecko")

(***************************************************************************)
(* The views recorded, one handler at a time (SpecServe)                   *)
(***************************************************************************)
\* the request last answered was a view of a compiled document
IsView(r) == Dispatch(r.req) = "doc" /\ r.status = 200

\* what the "/" handler of the request r saw and left
TotalBefore(r) == r.before.analytics.TotalViews
TotalAfter(r) == r.after.analytics.TotalViews

\* C1: a view of page P by identity I is counted once when the key has no
\* earlier counted view; a later view of P by I at most the cooldown (10 s)
\* after the counted one is suppressed and changes no counter and no
\* timestamp, so the two add exactly 1 to TotalViews; a later view more than
\* the cooldown after it adds 1 again, so the two add exactly 2.
C1_ViewDeduplication ==
    \A i \in DOMAIN done :
        IsView(done[i]) =>
            IF ViewKey(done[i].req) \notin DOMAIN done[i].before.lastView
            THEN TotalAfter(done[i]) = TotalBefore(done[i]) + 1
            ELSE IF done[i].t - done[i].before.lastView[ViewKey(done[i].req)] <= viewCooldown
            THEN /\ done[i].after = done[i].before
                 /\ TotalBefore(done[i]) >= 1
            ELSE /\ TotalAfter(done[i]) = TotalBefore(done[i]) + 1
                 /\ done[i].after.lastView[ViewKey(done[i].req)] = done[i].t

\* the second view comes exactly one cooldown after the first, and is suppressed
C1_Witness ==
    \E i \in DOMAIN done :
        /\ IsView(done[i])
        /\ ViewKey(done[i].req) \in DOMAIN done[i].before.lastView
        /\ done[i].t - done[i].before.lastView[ViewKey(done[i].req)] = viewCooldown
        /\ TotalAfter(done[i]) = 1

\* a request that is no hit on a compiled document: not found, under /assets/,
\* the favicon, the dashboard
NoHit(r) ==
    \/ r.status = 404
    \/ HasPrefix(r.req.path, "/assets/")
    \/ r.req.path = "/favicon.ico"
    \/ r.req.path = "/analytics"

\* C3: a request that is answered not-found, or is under /assets/, or is for
\* /favicon.ico or /analytics, leaves TotalViews, PageViews, BrowserEngines,
\* Countries and the last-view timestamps as they were, found or not.
C3_OnlyHitsRecord ==
    \A i \in DOMAIN done : NoHit(done[i]) => done[i].after = done[i].before

\* the dashboard is asked for after a view was counted
C3_Witness ==
    \E i \in DOMAIN done :
        /\ done[i].req.path = "/analytics"
        /\ done[i].status = 200
        /\ TotalBefore(done[i]) >= 1
        /\ analytics.TotalViews = TotalBefore(done[i])

\* the lookup failed: transport error, unparseable or empty result
Failed(reply) == reply.err \/ ~reply.valid \/ reply.code = ""

\* C4: with calls that do not overlap, the geolocation service gets at most
\* one request for an address; if that one fails, the call returns "Unknown",
\* "Unknown" is cached, and every later call for the address returns
\* "Unknown".
C4_CountryCache ==
    \A ip \in DOMAIN lookups :
        /\ ip # ""
        /\ lookups[ip].sent <= 1
        /\ Len(lookups[ip].got) <= lookups[ip].sent
        /\ (lookups[ip].got # << >> /\ Failed(lookups[ip].got[1])) =>
              /\ ip \in DOMAIN countryCache
              /\ countryCache[ip] = "Unknown"
              /\ \A p \in DOMAIN procs :
                    (/\ SplitHost(procs[p].req.remote) = ip
                     /\ procs[p].pc \in {"loadCountry", "storeCountry"})
                        => procs[p].country = "Unknown"

\* a second call for an address whose lookup failed has returned
C4_Witness ==
    \E p \in DOMAIN procs :
        /\ procs[p].pc = "loadCountry"
        /\ procs[p].country = "Unknown"
        /\ procs[p].pre.analytics.TotalViews >= 1
        /\ LookupsOf(SplitHost(procs[p].req.remote)).sent = 1
        /\ LookupsOf(SplitHost(procs[p].req.remote)).got # << >>
        /\ Failed(LookupsOf(SplitHost(procs[p].req.remote)).got[1])
        /\ Get(procs[p].pre.analytics.Countries, "Unknown") >= 1

(***************************************************************************)
(* The views recorded by two handlers at once (SpecConc)                   *)
(***************************************************************************)
\* the requests of SpecConc; their keys differ, so each that was counted
\* is the one view behind its key in lastView
ConcRequests == {RequestOn(p, path) : p \in Connections, path \in ConcPaths}
GenuineViews == {req \in ConcRequests : ViewKey(req) \in DOMAIN lastView}

CountryOfView(req) ==
    IF SplitHost(req.remote) \in DOMAIN countryCache
    THEN countryCache[SplitHost(req.remote)] ELSE ""

\* C2: once every handler has finished, TotalViews is the number of genuine
\* views (their keys all different), and each page, engine and country
\* counter is the number of those views that map to it.
C2_NoLostUpdate ==
    (Alive /\ Quiet) =>
        /\ analytics.TotalViews = Cardinality(GenuineViews)
        /\ \A page \in {PageOf(path) : path \in ConcPaths} :
              Get(analytics.PageViews, page)
                  = Cardinality({v \in GenuineViews : PageOf(v.path) = page})
        /\ \A e \in {detectBrowserEngine(req.ua) : req \in ConcRequests} :
              Get(analytics.BrowserEngines, e)
                  = Cardinality({v \in GenuineViews : detectBrowserEngine(v.ua) = e})
        /\ \A c \in {"Unknown", "US", "DE"} :
              Get(analytics.Countries, c)
                  = Cardinality({v \in GenuineViews : CountryOfView(v) = c})

(***************************************************************************)
(* Properties of the compiler run twice (SpecCompile)                      *)
(***************************************************************************)
\* C11: of two successful runs of compileGMDs in succession over the same
\* source tree, the second leaves the build root exactly as the first left
\* it: the same paths, the same bytes, nothing made and nothing removed
C11_CompileIdempotent ==
    \A i \in 1..(Len(ret) - 1) :
        (ret[i].err = "" /\ ret[i + 1].err = "") => ret[i + 1].built = ret[i].built

\* two successful runs over a tree with a document in a subdirectory, into a
\* build root that held a stale artifact
C11_Witness ==
    /\ Len(ret) = 2
    /\ ret[1].err = "" /\ ret[2].err = ""
    /\ built0 = StaleBuild
    /\ IsFile(built.tree, "sub/b.html")
    /\ IsFile(built.tree, "index.html")

RECURSIVE SumOver(_, _)
\* the sum of the counters of m at the keys in keys
SumOver(m, keys) ==
    IF keys = {} THEN 0
    ELSE SumOver(m, keys \ {CHOOSE k \in keys : TRUE}) + m[CHOOSE k \in keys : TRUE]

Sum(m) == SumOver(m, DOMAIN m)

\* the four kinds of counter agree
Consistent ==
    /\ analytics.TotalViews = Sum(analytics.PageViews)
    /\ analytics.TotalViews = Sum(analytics.BrowserEngines)
    /\ analytics.TotalViews = Sum(analytics.Countries)

\* no counter is smaller after the step
NoDecrease ==
    /\ analytics'.TotalViews >= analytics.TotalViews
    /\ \A k \in DOMAIN analytics.PageViews :
          Get(analytics'.PageViews, k) >= analytics.PageViews[k]
    /\ \A k \in DOMAIN analytics.BrowserEngines :
          Get(analytics'.BrowserEngines, k) >= analytics.BrowserEngines[k]
    /\ \A k \in DOMAIN analytics.Countries :
          Get(analytics'.Countries, k) >= analytics.Countries[k]

\* C18: whenever no request is part-way through recording a view,
\* TotalViews is the sum of the page counters, of the engine counters and of
\* the country counters; and no counter ever decreases
C18_CounterConsistency ==
    /\ [](Quiet => Consistent)
    /\ [][NoDecrease]_vars

(***************************************************************************)
(* Properties of one client served by two handlers (SpecRace)              *)
(***************************************************************************)
\* C12: when every view so far is of one page by one identity, all within
\* one cooldown window and handled in any interleaving, exactly one of them
\* is counted: once the handlers have finished, TotalViews and the counter of
\* the page are 1
C12_DedupUnderConcurrency ==
    (Alive /\ Quiet) =>
        \A req \in RaceRequests :
            DOMAIN lastView = {ViewKey(req)} =>
                /\ analytics.TotalViews = 1
                /\ Get(analytics.PageViews, PageOf(req.path)) = 1

\* C16: the calls of lookupCountry for one address, overlapping or not, all
\* return the same country, and the cache entry of the address keeps the
\* value first written
C16_LookupsConsistent ==
    \A ip \in DOMAIN lookups :
        /\ \A i, j \in DOMAIN lookups[ip].got :
              CountryOf(lookups[ip].got[i]) = CountryOf(lookups[ip].got[j])
        /\ lookups[ip].got # << >> =>
              /\ ip \in DOMAIN countryCache
              /\ countryCache[ip] = CountryOf(lookups[ip].got[1])

(***************************************************************************)
(* Progress of a request (SpecLive)                                        *)
(***************************************************************************)
\* C15: every request for an existing artifact is answered in the end,
\* whether the geolocation service fails or never replies
C15_LookupNeverBlocks ==
    \A p \in Handlers : (procs[p].pc # "idle") ~> (procs[p].pc = "idle")

(***************************************************************************)
(* Properties of the paths looked up (SpecPath)                            *)
(***************************************************************************)
\* C17: the file the document route checks, counts a view of and serves is
\* inside the build root, for every request path
C17_PathSafety ==
    /\ \A i \in DOMAIN done :
          Dispatch(done[i].req) = "doc" => InBuild(HtmlPath(done[i].req.path))
    /\ \A p \in DOMAIN procs : procs[p].pc # "idle" => InBuild(procs[p].name)
    /\ \A page \in DOMAIN analytics.PageViews : InBuild(HtmlPath(page))

(***************************************************************************)
(* The anchor of the cooldown window (SpecAnchor)                          *)
(***************************************************************************)
\* the view left every counter as it was
Suppressed(r) == IsView(r) /\ r.after.analytics = r.before.analytics

\* C19: a suppressed view leaves the timestamp of its key (and every other)
\* as it was, so the timestamp is that of the last counted view; and a view
\* more than the cooldown after that timestamp is counted and becomes the
\* new timestamp, whatever was suppressed in between
C19_WindowAnchor ==
    \A i \in DOMAIN done :
        /\ Suppressed(done[i]) => done[i].after.lastView = done[i].before.lastView
        /\ (/\ IsView(done[i])
            /\ ViewKey(done[i].req) \in DOMAIN done[i].before.lastView
            /\ done[i].t - done[i].before.lastView[ViewKey(done[i].req)] > viewCooldown)
               => /\ ~Suppressed(done[i])
                  /\ TotalAfter(done[i]) = TotalBefore(done[i]) + 1
                  /\ done[i].after.lastView[ViewKey(done[i].req)] = done[i].t

\* the third request: a view of a page counted 11 s after the only view
\* counted before it, a suppressed view of the page in between
C19_Witness ==
    \E i \in DOMAIN done :
        /\ budget = AnchorReqs - 3
        /\ Quiet
        /\ IsView(done[i])
        /\ TotalBefore(done[i]) = 1
        /\ DOMAIN done[i].before.lastView = {ViewKey(done[i].req)}
        /\ done[i].t - done[i].before.lastView[ViewKey(done[i].req)] = viewCooldown + 1
        /\ TotalAfter(done[i]) = 2

====
